---- MODULE Spec2Model ----
(***************************************************************************)
(* Model of the scrape-and-ingest pipeline of Retail-Chat-Agent-ETL:       *)
(*   - WebScraper._fetch / scrape_product /                                *)
(*     get_product_urls_from_collection and the scrape_stream generator    *)
(*     (src/utilities/scrape.py), checked under Spec;                      *)
(*   - the ingest_products_async loop and the three sinks                  *)
(*     (src/utilities/scrape.py, vectorstore.py, database.py, s3.py),      *)
(*     checked under SpecIngest.                                           *)
(***************************************************************************)
EXTENDS Integers, Sequences, FiniteSets, TLC

\* ------------------------------------------------------------------ bounds
\* concurrent_requests of scrape_stream (default 10), kept small so the
\* admission ceiling binds with the three product URLs of the model.
ConcurrentRequests == 2
\* number_of_pages of scrape_stream.
NumberOfPages == 2
\* limit_per_page of scrape_stream.
LimitPerPage == 2
\* longest anchor list of one listing page.
MaxAnchors == 3
\* most sink operations called in a row, when the sinks are called directly.
MaxCalls == 3
\* largest image ordinal an id is generated for.
MaxIndex == 11
\* most <img> elements and most size buttons of a product page, when the
\* parser is run on its own.
MaxImages == 3
MaxSizes == 2

\* ------------------------------------------------------------- HTTP values
StatusOK == 200
StatusNotFound == 404

\* Python values a fetch can return: None, the empty string, a page text.
None == [type |-> "NoneType"]
EmptyBody == [type |-> "str", page |-> "empty"]
\* the body of an error response
NotFoundPage == [type |-> "str", page |-> "notfound"]

\* product paths the site serves, and the categories a crawl can be given
Urls == {"/products/u1", "/products/u2", "/products/u3"}
Categories == {"jackets", "dresses"}

\* The anchors a listing page can carry: each with its path and its query
\* string; one product is linked with and without a query, one anchor is no
\* product link.
Hrefs ==
    {[path |-> u, query |-> ""] : u \in Urls \cup {"/pages/about"}}
        \cup {[path |-> "/products/u1", query |-> "ref=1"]}

\* The listing page: its anchors, in document order.
ListingPage(anchors) == [type |-> "str", page |-> "listing", anchors |-> anchors]

AnchorLists == UNION {[1..n -> Hrefs] : n \in 0..MaxAnchors}

\* What one session.get can produce: a response, or an exception.  The total
\* timeout of aiohttp (timeout=30) raises asyncio.TimeoutError, which is not
\* an aiohttp.ClientError.
ClientError == "aiohttp.ClientError"
TimeoutError == "asyncio.TimeoutError"
Response(s, b) == [kind |-> "response", status |-> s, body |-> b]
Failure(e) == [kind |-> "exception", exc |-> e]
Failures == {Failure(ClientError), Failure(TimeoutError)}

\* ------------------------------------------------------------ return values
Return(v) == [tag |-> "return", value |-> v]
Raise(e) == [tag |-> "raise", exc |-> e]

\* Python truthiness of what _fetch returns: None and "" are falsy.
Truthy(v) == v # None /\ v # EmptyBody

\* _fetch with "if response.status == 200" dropped: the body of any response.
FetchResultAnyStatus(outcome) ==
    IF outcome.kind = "response" THEN Return(outcome.body)
    ELSE IF outcome.exc = ClientError THEN Return(None) ELSE Raise(outcome.exc)

\* WebScraper._fetch, from the outcome of session.get on: the body on status
\* 200, None on any other status, None on aiohttp.ClientError; any other
\* exception leaves the function.
FetchResult(outcome) ==
    IF outcome.kind = "response"
    THEN IF outcome.status = StatusOK THEN Return(outcome.body) ELSE Return(None)
    ELSE IF outcome.exc = ClientError THEN Return(None) ELSE Raise(outcome.exc)

\* ------------------------------------------------------------ product pages
\* A title is the sequence of its characters; NoTag is an absent element.
NoTag == "NoTag"

\* The product pages of the site: the <title> text, the price node, the
\* <img> sources under the product-image containers and the items of the
\* details container, in document order.  u1 and u2 share the text before
\* the first "-"; u3 has no optional section at all.
Site(u) ==
    CASE u = "/products/u1" ->
           [type |-> "str", page |-> "product", title |-> <<"a", " ", "-", "x">>,
            price |-> <<"1", "0">>, details |-> <<"cotton">>,
            images |-> <<[path |-> "a.jpg", query |-> "x=1"],
                         [path |-> "a.jpg", query |-> "x=2"],
                         [path |-> "b.jpg", query |-> ""]>>]
      [] u = "/products/u2" ->
           [type |-> "str", page |-> "product", title |-> <<"a", "-", "y">>,
            price |-> <<" ", "1", "2">>, details |-> <<"wool", "lined">>,
            images |-> <<[path |-> "b.jpg", query |-> ""]>>]
      [] OTHER ->
           [type |-> "str", page |-> "product", title |-> NoTag, price |-> NoTag,
            details |-> <<>>, images |-> <<>>]

NoTitleFound == <<"No title found">>
NoPriceFound == <<"No price found">>

\* u.split("?")[0] of every image source (the "&amp;" that replace() turns
\* into "&" sits in the query, which goes).
StripQueries(srcs) == [i \in 1..Len(srcs) |-> srcs[i].path]

\* lines 70-77: the source of each <img>: its src, else the first URL of
\* its srcset, and nothing for an element with neither.
RECURSIVE ImageSources(_)
ImageSources(images) ==
    IF images = <<>> THEN <<>>
    ELSE LET image == Head(images)
             rest == ImageSources(Tail(images))
         IN IF "path" \in DOMAIN image THEN <<image>> \o rest
            ELSE IF "srcset" \in DOMAIN image /\ image.srcset # <<>>
                 THEN <<image.srcset[1]>> \o rest
            ELSE rest

\* list(dict.fromkeys(s)): each key goes in where it first occurs, and a
\* later occurrence of it is dropped.
RECURSIVE Dedup(_)
Dedup(s) ==
    IF s = <<>> THEN <<>>
    ELSE <<Head(s)>> \o Dedup(SelectSeq(Tail(s), LAMBDA y : y # Head(s)))

\* get_product_urls_from_collection without "[:limit]": the whole list.
TakeAll(s, n) == s

\* s[:n]
Take(s, n) == SubSeq(s, 1, IF Len(s) < n THEN Len(s) ELSE n)

\* soup.title / soup.select(...): a section of the page, absent when the page
\* does not carry it.
Section(html, name, absent) == IF name \in DOMAIN html THEN html[name] ELSE absent

\* s.strip() of a text: leading and trailing blanks removed.
RECURSIVE StripText(_)
StripText(s) ==
    IF s = <<>> THEN s
    ELSE IF Head(s) = " " THEN StripText(Tail(s))
    ELSE IF s[Len(s)] = " " THEN StripText(SubSeq(s, 1, Len(s) - 1))
    ELSE s

\* The images deduplicated as the page gives them, the queries stripped
\* afterwards.
UniqueImagesBeforeStripping(images) == StripQueries(Dedup(ImageSources(images)))

\* lines 68-80: the sources, their queries stripped, deduplicated in order.
UniqueImages(images) == Dedup(StripQueries(ImageSources(images)))

\* lines 109-115: the last word of the text of every size button that has a
\* text; a button text is the sequence of its words.
RECURSIVE SizeTexts(_)
SizeTexts(buttons) ==
    IF buttons = <<>> THEN <<>>
    ELSE LET text == Head(buttons)
             rest == SizeTexts(Tail(buttons))
         IN IF text = <<>> THEN rest ELSE <<text[Len(text)]>> \o rest

\* Python's {} and the words the two regular expressions of lines 101-102
\* look for.
EmptyDict == [type |-> "dict"]
NumberWords == {"4"}
AmountWords == {"£25.00"}
\* re.search(r"\bor\s+(\d+)\s+payments?\b"): the number between "or" and
\* "payment(s)", or None.
PaymentsCount(raw) ==
    LET hits == {i \in 1..(Len(raw) - 2) :
                   /\ raw[i] \in {"or", "OR", "Or"}
                   /\ raw[i + 1] \in NumberWords
                   /\ raw[i + 2] \in {"payment", "payments"}}
    IN IF hits = {} THEN None
       ELSE raw[(CHOOSE i \in hits : \A j \in hits : i <= j) + 1]
\* re.search(r"(£\s?\d+(?:\.\d{2})?)"): the first amount, or None.
PaymentAmount(raw) ==
    LET hits == {i \in 1..Len(raw) : raw[i] \in AmountWords}
    IN IF hits = {} THEN None
       ELSE raw[CHOOSE i \in hits : \A j \in hits : i <= j]

\* lines 97-107 with None for a page without the financing button.
FinancingOrNone(html) ==
    IF "financing" \notin DOMAIN html THEN None
    ELSE [type |-> "dict", raw_text |-> html.financing,
          payments_count |-> PaymentsCount(html.financing),
          payment_amount |-> PaymentAmount(html.financing)]

\* lines 97-107: {} unless the page has the financing button.
Financing(html) ==
    IF "financing" \notin DOMAIN html THEN EmptyDict
    ELSE [type |-> "dict", raw_text |-> html.financing,
          payments_count |-> PaymentsCount(html.financing),
          payment_amount |-> PaymentAmount(html.financing)]

\* WebScraper._parse_product_data: the record of a product page.
ParseProductData(html, url) ==
    LET title == Section(html, "title", NoTag)
        price == Section(html, "price", NoTag)
        unique_imgs == UniqueImages(Section(html, "images", <<>>))
    IN [ProductTitle |-> IF title = NoTag THEN NoTitleFound ELSE title,
        ProductPrice |-> IF price = NoTag THEN NoPriceFound ELSE StripText(price),
        ProductImages |-> unique_imgs,
        NoOfImages |-> Len(unique_imgs),
        ProductDetails |-> Section(html, "details", <<>>),
        Financing |-> Financing(html),
        PromoTagline |-> Section(html, "tagline", None),
        SizeOptions |-> Dedup(SizeTexts(Section(html, "sizes", <<>>))),
        ProductURL |-> url]

ErrorRecord(url) == [ProductURL |-> url, error |-> "Failed to retrieve page"]

\* scrape_product with "if html is None" in place of "if not html".
InvokesParserUnlessNone(fetched) == fetched.tag = "return" /\ fetched.value # None

\* scrape_product line 136: the parser runs exactly when "not html" is false.
InvokesParser(fetched) == fetched.tag = "return" /\ Truthy(fetched.value)

\* WebScraper.scrape_product, from what _fetch gave.
ScrapeProduct(url, fetched) ==
    IF fetched.tag = "raise" THEN fetched
    ELSE IF InvokesParser(fetched) THEN Return(ParseProductData(fetched.value, url))
    ELSE Return(ErrorRecord(url))

\* soup.select('a[href^="/products/"]'), then urlparse(...)._replace(query="",
\* fragment="").geturl() of each.
RECURSIVE CanonicalUrls(_)
CanonicalUrls(anchors) ==
    IF anchors = <<>> THEN <<>>
    ELSE LET rest == CanonicalUrls(SubSeq(anchors, 1, Len(anchors) - 1))
             a == anchors[Len(anchors)]
         IN IF a.path \in Urls THEN Append(rest, a.path) ELSE rest

\* get_product_urls_from_collection truncating before it deduplicates:
\* list(dict.fromkeys(urls[:limit])).
GetProductUrlsTruncatedFirst(fetched, limit) ==
    IF fetched.tag = "raise" THEN fetched
    ELSE IF ~Truthy(fetched.value) THEN Return(<<>>)
    ELSE Return(Dedup(Take(CanonicalUrls(Section(fetched.value, "anchors", <<>>)),
                           limit)))

\* WebScraper.get_product_urls_from_collection, from what _fetch gave.
GetProductUrlsFromCollection(fetched, limit) ==
    IF fetched.tag = "raise" THEN fetched
    ELSE IF ~Truthy(fetched.value) THEN Return(<<>>)
    ELSE Return(Take(Dedup(CanonicalUrls(Section(fetched.value, "anchors", <<>>))),
                     limit))

\* ------------------------------------------------------------------- state
VARIABLES
    category,   \* the category argument of scrape_stream
    gen,        \* where the scrape_stream generator is: "discover", "fanout",
                \* "done" (returned) or "raised" (an exception left it)
    page,       \* the listing page being discovered, from 1
    urls,       \* the urls list of scrape_stream
    sem,        \* free slots of the asyncio.Semaphore
    fpc,        \* per fetch: "none", "waiting" (at async with semaphore),
                \* "sleeping" (slot held, request_delay), "requesting"
                \* (session.get in flight), "done"
    issued,     \* per fetch: how many times session.get was called
    resp,       \* per fetch: what the session.get of its last _fetch call
                \* produced, until the fetch is admitted again
    fetched,    \* per fetch: what its last _fetch call gave, likewise
    parsed,     \* per product URL: how often _parse_product_data ran
    result,     \* per product URL: what its scrape_product task gave
    completed,  \* product URLs in the order their tasks completed
    yielded     \* the records handed to the consumer, in order

crawlVars == <<category, gen, page, urls, sem, fpc, issued, resp, fetched,
               parsed, result, completed, yielded>>

VARIABLES
    stream,      \* product URLs whose record the stream has yet to deliver
    ipc,         \* where ingest_products_async is: "next" (at async for),
                 \* "text_point", "product_row", "upload", "image_point",
                 \* "embedding_row", "finished", "raised"
    exc,         \* the exception that left ingest_products_async, if any
    cur,         \* product: the record in hand
    pdata,       \* product_data of the record in hand
    img,         \* image_index of the image loop
    s3url,       \* s3_image_url of the image loop
    ops,         \* the sink operations attempted for the record in hand
    clock,       \* datetime.now(UTC)
    points,      \* the vector index: per collection its set of points
    products,    \* rows of the products table
    embeddings,  \* rows of the embeddings table
    objects,     \* keys of the objects in the bucket
    conns        \* open store connections, per store

sinkVars == <<points, products, embeddings, objects>>
ingestVars == <<stream, ipc, exc, cur, pdata, img, s3url, ops, clock, points,
                products, embeddings, objects, conns>>

VARIABLES
    call,        \* a function called on its own: its name and arguments
    ret          \* what that call gave

callVars == <<call, ret>>

\* The generator's own (sequential) listing-page fetch, and one scrape_product
\* task per product URL.
Gen == "gen"
Fetchers == Urls \cup {Gen}

NoValue == [tag |-> "none"]
NoOutcome == [kind |-> "none"]

InFlight == {t \in Fetchers : fpc[t] = "requesting"}

\* What the site can answer to the request of a fetch: a status with a body
\* (the page, or nothing), or a transport failure.
ListingOutcomes ==
    {Response(StatusOK, ListingPage(a)) : a \in AnchorLists}
        \cup {Response(StatusOK, EmptyBody), Response(StatusNotFound, NotFoundPage)}
        \cup Failures
ProductOutcomes(u) ==
    {Response(StatusOK, Site(u)), Response(StatusOK, EmptyBody),
     Response(StatusNotFound, NotFoundPage)} \cup Failures

CrawlInit ==
    /\ category \in Categories
    /\ gen = "discover"
    /\ page = 1
    /\ urls = <<>>
    /\ sem = ConcurrentRequests
    /\ fpc = [t \in Fetchers |-> IF t = Gen THEN "waiting" ELSE "none"]
    /\ issued = [t \in Fetchers |-> 0]
    /\ resp = [t \in Fetchers |-> NoOutcome]
    /\ fetched = [t \in Fetchers |-> NoValue]
    /\ parsed = [u \in Urls |-> 0]
    /\ result = [u \in Urls |-> NoValue]
    /\ completed = <<>>
    /\ yielded = <<>>

\* _fetch with the delay served before the gate: once admitted, the fetch
\* issues its request at once.
AcquireAfterDelay(t) ==
    /\ fpc[t] = "waiting"
    /\ sem > 0
    /\ sem' = sem - 1
    /\ fpc' = [fpc EXCEPT ![t] = "requesting"]
    /\ issued' = [issued EXCEPT ![t] = @ + 1]
    /\ resp' = [resp EXCEPT ![t] = NoOutcome]
    /\ fetched' = [fetched EXCEPT ![t] = NoValue]
    /\ UNCHANGED <<category, gen, page, urls, parsed, result, completed,
                   yielded>>
    /\ UNCHANGED <<ingestVars, callVars>>

\* _fetch without the admission gate: a fetch goes ahead at once.
AcquireUngated(t) ==
    /\ fpc[t] = "waiting"
    /\ sem' = sem - 1
    /\ fpc' = [fpc EXCEPT ![t] = "sleeping"]
    /\ resp' = [resp EXCEPT ![t] = NoOutcome]
    /\ fetched' = [fetched EXCEPT ![t] = NoValue]
    /\ UNCHANGED <<category, gen, page, urls, issued, parsed, result,
                   completed, yielded>>
    /\ UNCHANGED <<ingestVars, callVars>>

\* _fetch: "async with self.semaphore" admits the fetch when a slot is free.
Acquire(t) ==
    /\ fpc[t] = "waiting"
    /\ sem > 0
    /\ sem' = sem - 1
    /\ fpc' = [fpc EXCEPT ![t] = "sleeping"]
    /\ resp' = [resp EXCEPT ![t] = NoOutcome]
    /\ fetched' = [fetched EXCEPT ![t] = NoValue]
    /\ UNCHANGED <<category, gen, page, urls, issued, parsed, result,
                   completed, yielded>>
    /\ UNCHANGED <<ingestVars, callVars>>

\* _fetch: asyncio.sleep(request_delay) is over and session.get is called.
IssueRequest(t) ==
    /\ fpc[t] = "sleeping"
    /\ fpc' = [fpc EXCEPT ![t] = "requesting"]
    /\ issued' = [issued EXCEPT ![t] = @ + 1]
    /\ UNCHANGED <<category, gen, page, urls, sem, resp, fetched, parsed,
                   result, completed, yielded>>
    /\ UNCHANGED <<ingestVars, callVars>>

\* The request of the listing-page fetch ends: _fetch leaves the semaphore,
\* get_product_urls_from_collection returns to scrape_stream, which extends
\* urls and goes on to the next page (lines 187-189), or the exception of
\* the fetch leaves the generator.
DiscoverRespond(outcome) ==
    /\ gen = "discover"
    /\ fpc[Gen] = "requesting"
    /\ sem' = sem + 1
    /\ resp' = [resp EXCEPT ![Gen] = outcome]
    /\ fetched' = [fetched EXCEPT ![Gen] = FetchResult(outcome)]
    /\ LET r == GetProductUrlsFromCollection(FetchResult(outcome), LimitPerPage)
       IN IF r.tag = "raise"
          THEN /\ gen' = "raised"
               /\ fpc' = [fpc EXCEPT ![Gen] = "none"]
               /\ UNCHANGED <<urls, page>>
          ELSE /\ urls' = urls \o r.value
               /\ page' = page + 1
               /\ gen' = gen
               /\ fpc' = [fpc EXCEPT ![Gen] = IF page < NumberOfPages
                                              THEN "waiting" ELSE "none"]
    /\ UNCHANGED <<category, issued, parsed, result, completed, yielded>>
    /\ UNCHANGED <<ingestVars, callVars>>

\* The tasks created inside the page loop: fan-out as soon as a listing page
\* was processed, the last one or not.
FanOutBeforeLastPage ==
    /\ gen = "discover"
    /\ page > 1
    /\ LET unique == Dedup(urls)
       IN /\ urls' = unique
          /\ gen' = IF unique = <<>> THEN "done" ELSE "fanout"
          /\ fpc' = [t \in Fetchers |->
                       IF \E i \in 1..Len(unique) : unique[i] = t
                       THEN "waiting" ELSE fpc[t]]
    /\ resp' = [resp EXCEPT ![Gen] = NoOutcome]
    /\ fetched' = [fetched EXCEPT ![Gen] = NoValue]
    /\ UNCHANGED <<category, page, sem, issued, parsed, result, completed,
                   yielded>>
    /\ UNCHANGED <<ingestVars, callVars>>

\* scrape_stream lines 191-200, after the last listing page: deduplicate,
\* then return when no URL was found, else create one scrape_product task
\* per URL.  The generator fetches nothing from here on.
FanOut ==
    /\ gen = "discover"
    /\ page > NumberOfPages
    /\ LET unique == Dedup(urls)
       IN /\ urls' = unique
          /\ gen' = IF unique = <<>> THEN "done" ELSE "fanout"
          /\ fpc' = [t \in Fetchers |->
                       IF \E i \in 1..Len(unique) : unique[i] = t
                       THEN "waiting" ELSE fpc[t]]
    /\ resp' = [resp EXCEPT ![Gen] = NoOutcome]
    /\ fetched' = [fetched EXCEPT ![Gen] = NoValue]
    /\ UNCHANGED <<category, page, sem, issued, parsed, result, completed,
                   yielded>>
    /\ UNCHANGED <<ingestVars, callVars>>

\* The request of a product fetch ends, the slot given back on a return of
\* _fetch only: an exception that leaves _fetch keeps it.
TaskRespondHoldingOnEscape(u, outcome) ==
    /\ u \in Urls
    /\ fpc[u] = "requesting"
    /\ sem' = IF FetchResult(outcome).tag = "raise" THEN sem ELSE sem + 1
    /\ fpc' = [fpc EXCEPT ![u] = "done"]
    /\ resp' = [resp EXCEPT ![u] = outcome]
    /\ fetched' = [fetched EXCEPT ![u] = FetchResult(outcome)]
    /\ parsed' = [parsed EXCEPT
                    ![u] = IF InvokesParser(FetchResult(outcome)) THEN @ + 1 ELSE @]
    /\ result' = [result EXCEPT ![u] = ScrapeProduct(u, FetchResult(outcome))]
    /\ completed' = Append(completed, u)
    /\ UNCHANGED <<category, gen, page, urls, issued, yielded>>
    /\ UNCHANGED <<ingestVars, callVars>>

\* The request of a product fetch ends: _fetch leaves the semaphore,
\* scrape_product returns or raises, and the task is complete.
TaskRespond(u, outcome) ==
    /\ u \in Urls
    /\ fpc[u] = "requesting"
    /\ sem' = sem + 1
    /\ fpc' = [fpc EXCEPT ![u] = "done"]
    /\ resp' = [resp EXCEPT ![u] = outcome]
    /\ fetched' = [fetched EXCEPT ![u] = FetchResult(outcome)]
    /\ parsed' = [parsed EXCEPT
                    ![u] = IF InvokesParser(FetchResult(outcome)) THEN @ + 1 ELSE @]
    /\ result' = [result EXCEPT ![u] = ScrapeProduct(u, FetchResult(outcome))]
    /\ completed' = Append(completed, u)
    /\ UNCHANGED <<category, gen, page, urls, issued, yielded>>
    /\ UNCHANGED <<ingestVars, callVars>>

\* Awaiting the tasks in list order instead: the next task of urls, once done.
NextDoneInSubmissionOrder ==
    IF Len(yielded) < Len(urls) /\ fpc[urls[Len(yielded) + 1]] = "done"
    THEN {urls[Len(yielded) + 1]} ELSE {}

\* tqdm.as_completed: the task whose result "await coro" receives next, if
\* one is ready: the earliest completed task not yet received.
NextDone ==
    IF Len(yielded) < Len(completed) THEN {completed[Len(yielded) + 1]} ELSE {}

\* The tag set on parsed records only: an error record goes out as it is.
TaggedUnlessError(rec, cat) ==
    IF "error" \in DOMAIN rec THEN rec
    ELSE [f \in DOMAIN rec \cup {"ProductCategory"} |->
            IF f = "ProductCategory" THEN cat ELSE rec[f]]

\* product["Product Category"] = category
Tagged(rec, cat) ==
    [f \in DOMAIN rec \cup {"ProductCategory"} |->
        IF f = "ProductCategory" THEN cat ELSE rec[f]]

\* scrape_stream lines 202-205: the next completed task returned a record,
\* which is tagged and yielded.
YieldRecord ==
    /\ gen = "fanout"
    /\ \E u \in NextDone :
         /\ result[u].tag = "return"
         /\ yielded' = Append(yielded, Tagged(result[u].value, category))
    /\ UNCHANGED <<category, gen, page, urls, sem, fpc, issued, resp, fetched,
                   parsed, result, completed>>
    /\ UNCHANGED <<ingestVars, callVars>>

\* scrape_stream line 203: the next completed task raised; the exception
\* leaves the generator (closing the session on the way).
YieldRaise ==
    /\ gen = "fanout"
    /\ \E u \in NextDone : result[u].tag = "raise"
    /\ gen' = "raised"
    /\ UNCHANGED <<category, page, urls, sem, fpc, issued, resp, fetched,
                   parsed, result, completed, yielded>>
    /\ UNCHANGED <<ingestVars, callVars>>

\* scrape_stream: every task was received, the generator returns.
StreamEnd ==
    /\ gen = "fanout"
    /\ Len(yielded) = Len(urls)
    /\ gen' = "done"
    /\ UNCHANGED <<category, page, urls, sem, fpc, issued, resp, fetched,
                   parsed, result, completed, yielded>>
    /\ UNCHANGED <<ingestVars, callVars>>

\* ------------------------------------------------------- ids and ingestion
\* s.split(sep)[0]: the characters before the first sep.
RECURSIVE BeforeFirst(_, _)
BeforeFirst(s, sep) ==
    IF s = <<>> \/ Head(s) = sep THEN <<>>
    ELSE <<Head(s)>> \o BeforeFirst(Tail(s), sep)

\* s.strip(): leading and trailing blanks removed.
RECURSIVE Strip(_)
Strip(s) ==
    IF s = <<>> THEN s
    ELSE IF Head(s) = " " THEN Strip(Tail(s))
    ELSE IF s[Len(s)] = " " THEN Strip(SubSeq(s, 1, Len(s) - 1))
    ELSE s

\* The ids taken from the raw title, as the page gives it.
RawTitle(title) == title

\* product["Product Title"].split("-")[0].strip()
CanonicalTitle(title) == Strip(BeforeFirst(title, "-"))

\* int(hashlib.sha256(content.encode()).hexdigest(), 16) % (2**63), taken as
\* collision-free: the id stands for the content it was hashed from.
Sha256Id(content) == [sha256 |-> content]

\* generate_product_id
GenerateProductId(product_title) == Sha256Id(product_title)

\* the characters of an embedding type, and of a number in decimal
TypeChars(embedding_type) ==
    IF embedding_type = "text" THEN <<"t", "e", "x", "t">>
    ELSE <<"i", "m", "a", "g", "e">>
RECURSIVE Digits(_)
Digits(n) ==
    IF n < 10 THEN <<ToString(n)>>
    ELSE Digits(n \div 10) \o <<ToString(n % 10)>>

\* generate_vector_id hashing f"{product_title}_{embedding_type}": the index
\* left out.
GenerateVectorIdWithoutIndex(product_title, embedding_type, index) ==
    Sha256Id(product_title \o <<"_">> \o TypeChars(embedding_type))

\* generate_vector_id: the hash of f"{product_title}_{embedding_type}_{index}"
GenerateVectorId(product_title, embedding_type, index) ==
    Sha256Id(product_title \o <<"_">> \o TypeChars(embedding_type)
                 \o <<"_">> \o Digits(index))

TextCollection == "jibbs_product_text_embeddings"
ImageCollection == "jibbs_product_image_embeddings"
AllowedCollections == {ImageCollection, TextCollection}
\* a collection of the index that is not one of the two
OtherCollection == "jibbs_product_archive"
Collections == AllowedCollections \cup {OtherCollection}

\* validate_collection_name letting every name through.
ValidateAnyName(collection_name) == TRUE

\* validate_collection_name
ValidateCollectionName(collection_name) == collection_name \in AllowedCollections

NoRecord == [none |-> TRUE]
NoException == "none"
IsErrorRecord(rec) == "error" \in DOMAIN rec
IsParsedRecord(rec) == "ProductTitle" \in DOMAIN rec

\* What the stores can answer.
QdrantOutcomes == {"ok", "UnexpectedResponse"}
PostgresOutcomes == {"ok", "psycopg2.Error", "no_connection"}
S3Outcomes == {"ok", "ClientError", "no_client", "RequestException"}
ImageOutcomes == {"ok", "ValueError"}

IngestInit ==
    /\ stream \in SUBSET Urls
    /\ ipc = "next"
    /\ exc = NoException
    /\ cur = NoRecord
    /\ pdata = NoRecord
    /\ img = 0
    /\ s3url = None
    /\ ops = <<>>
    /\ clock = 0
    /\ points = [c \in Collections |-> {}]
    /\ products = {}
    /\ embeddings = {}
    /\ objects = {}
    /\ conns = [qdrant |-> 0, postgres |-> 0]

\* product.get(key, default)
Get(product, key, default) == IF key \in DOMAIN product THEN product[key] ELSE default

\* product.get(key, "") in place of product[key]: no KeyError.
SubscriptOrEmpty(product, key) == Return(Get(product, key, <<>>))

\* product[key]: KeyError when the record has no such field.
Subscript(product, key) ==
    IF key \in DOMAIN product THEN Return(product[key]) ELSE Raise("KeyError")

\* product_data of lines 212-233, from the title read at line 212.
ProductData(product, title, now) ==
    LET product_title == CanonicalTitle(title)
    IN [product_id |-> GenerateProductId(product_title),
        product_title |-> product_title,
        description |-> Get(product, "ProductDetails", <<>>),
        price |-> Get(product, "ProductPrice", <<>>),
        num_images |-> Get(product, "NoOfImages", 0),
        product_images |-> Get(product, "ProductImages", <<>>),
        product_s3_image_urls |-> <<>>,
        product_url |-> Get(product, "ProductURL", ""),
        product_category |-> Get(product, "ProductCategory", ""),
        product_inserted_at |-> now,
        product_updated_at |-> now]

\* The exception leaves ingest_products_async.
Abort(e) ==
    /\ ipc' = "raised"
    /\ exc' = e

\* The order the spec of the writer gives: the images first, the product
\* row last.
FlowProductRowLast(step, i, n) ==
    CASE step = "text_point" ->
           IF n > 0 THEN [pc |-> "upload", img |-> 0]
           ELSE [pc |-> "product_row", img |-> i]
      [] step = "product_row" -> [pc |-> "next", img |-> i]
      [] step = "upload" -> [pc |-> "image_point", img |-> i]
      [] step = "image_point" -> [pc |-> "embedding_row", img |-> i]
      [] OTHER ->
           IF i + 1 < n THEN [pc |-> "upload", img |-> i + 1]
           ELSE [pc |-> "product_row", img |-> i]

\* The order of the sink writes of one record, lines 243-275: the step that
\* follows `step` when it did not raise, for a record of n images.
Flow(step, i, n) ==
    CASE step = "text_point" -> [pc |-> "product_row", img |-> i]
      [] step = "product_row" ->
           IF n > 0 THEN [pc |-> "upload", img |-> 0] ELSE [pc |-> "next", img |-> i]
      [] step = "upload" -> [pc |-> "image_point", img |-> i]
      [] step = "image_point" -> [pc |-> "embedding_row", img |-> i]
      [] OTHER ->
           IF i + 1 < n THEN [pc |-> "upload", img |-> i + 1]
           ELSE [pc |-> "next", img |-> i]

Goto(step) ==
    LET f == Flow(step, img, pdata.num_images)
    IN ipc' = f.pc /\ img' = f.img

Op(name, i) == [op |-> name, image |-> i]

\* line 211: the stream hands over the record of one more URL, in whatever
\* order the tasks complete, or the exception of its task; lines 212-233 for
\* the record: product["Product Title"] raises KeyError on an error record,
\* else the caption is generated and embedded and product_data built.
Deliver(u, outcome) ==
    /\ ipc = "next"
    /\ u \in stream
    /\ stream' = stream \ {u}
    /\ LET r == ScrapeProduct(u, FetchResult(outcome))
       IN IF r.tag = "raise"
          THEN /\ Abort(r.exc)
               /\ UNCHANGED <<cur, pdata, clock, ops>>
          ELSE LET product == Tagged(r.value, category)
                   title == Subscript(product, "ProductTitle")
               IN /\ cur' = product
                  /\ IF title.tag = "return"
                     THEN /\ pdata' = ProductData(product, title.value, clock + 1)
                          /\ ops' = <<Op("caption", 0), Op("embed_text", 0)>>
                          /\ clock' = clock + 1
                          /\ ipc' = "text_point"
                          /\ exc' = exc
                     ELSE /\ Abort(title.exc)
                          /\ ops' = <<>>
                          /\ UNCHANGED <<pdata, clock>>
    /\ UNCHANGED <<img, s3url, points, products, embeddings, objects, conns>>
    /\ UNCHANGED <<crawlVars, callVars>>

\* line 211: the stream is exhausted and ingest_products_async returns.
Finish ==
    /\ ipc = "next"
    /\ stream = {}
    /\ ipc' = "finished"
    /\ UNCHANGED <<stream, exc, cur, pdata, img, s3url, ops, clock, points,
                   products, embeddings, objects, conns>>
    /\ UNCHANGED <<crawlVars, callVars>>

\* The point added under a key of its own, whatever its id: no overwrite.
QdrantInsert(collection, point) == collection \cup {point}

\* client.upsert of one point: it replaces the point of the same id, if any.
QdrantUpsert(collection, point) ==
    {q \in collection : q.id # point.id} \cup {point}

\* client.upsert(collection_name, points): the points of the list, in order.
RECURSIVE QdrantUpsertAll(_, _)
QdrantUpsertAll(collection, pts) ==
    IF pts = <<>> THEN collection
    ELSE QdrantUpsertAll(QdrantUpsert(collection, Head(pts)), Tail(pts))

\* upsert_points: a client is opened; under an allowed name the points are
\* upserted and the client closed (try/finally, no except: an error of the
\* store leaves the function); under any other name nothing happens.
UpsertPoints(collection_name, pts, outcome) ==
    IF ValidateCollectionName(collection_name)
    THEN /\ conns' = conns
         /\ IF outcome = "ok"
            THEN points' = [points EXCEPT ![collection_name] = QdrantUpsertAll(@, pts)]
            ELSE points' = points
    ELSE /\ conns' = [conns EXCEPT !.qdrant = @ + 1]
         /\ points' = points

\* What upsert_points gives its caller: the error of the store, which it
\* does not catch, or None.
UpsertPointsResult(collection_name, outcome) ==
    IF ValidateCollectionName(collection_name) /\ outcome # "ok"
    THEN Raise(outcome) ELSE Return(None)

\* lines 234-243: the text point of the record is upserted.
UpsertTextPoint(outcome) ==
    /\ ipc = "text_point"
    /\ ops' = Append(ops, Op("text_point", 0))
    /\ UpsertPoints(TextCollection,
                    <<[id |-> GenerateVectorId(pdata.product_title, "text", 0),
                       payload |-> [product_id |-> pdata.product_id,
                                    num_images |-> pdata.num_images,
                                    embedding_type |-> "text"]]>>,
                    outcome)
    /\ IF outcome = "ok"
       THEN Goto("text_point") /\ exc' = exc
       ELSE Abort(outcome) /\ img' = img
    /\ UNCHANGED <<stream, cur, pdata, s3url, clock, products, embeddings, objects>>
    /\ UNCHANGED <<crawlVars, callVars>>

\* A plain INSERT INTO products, with no ON CONFLICT clause and no key.
ProductsInsert(table, row) == table \cup {row}

\* ON CONFLICT (product_id) DO UPDATE SET every column but the insertion
\* timestamp.
ProductsUpsertAllColumns(table, row) ==
    IF \E r \in table : r.product_id = row.product_id
    THEN {IF r.product_id = row.product_id
          THEN [row EXCEPT !.product_inserted_at = r.product_inserted_at]
          ELSE r : r \in table}
    ELSE table \cup {row}

\* INSERT INTO products ... ON CONFLICT (product_id) DO UPDATE SET the
\* mutable columns.
ProductsUpsert(table, row) ==
    IF \E r \in table : r.product_id = row.product_id
    THEN {IF r.product_id = row.product_id
          THEN [r EXCEPT !.price = row.price,
                         !.num_images = row.num_images,
                         !.product_images = row.product_images,
                         !.product_s3_image_urls = row.product_s3_image_urls,
                         !.product_url = row.product_url,
                         !.product_category = row.product_category,
                         !.product_updated_at = row.product_updated_at]
          ELSE r : r \in table}
    ELSE table \cup {row}

\* What upsert_product_data and upsert_embedding_data give their caller:
\* ConnectionError when get_postgres_connection returned None, else None (a
\* psycopg2.Error is caught).
PostgresResult(outcome) ==
    IF outcome = "no_connection" THEN Raise("ConnectionError") ELSE Return(None)

\* upsert_product_data on the stores: a connection is opened, the statement
\* committed, or rolled back on psycopg2.Error; the connection is not
\* closed.
WriteProductData(product_data, outcome) ==
    /\ conns' = IF outcome = "no_connection" THEN conns
                ELSE [conns EXCEPT !.postgres = @ + 1]
    /\ products' = IF outcome = "ok" THEN ProductsUpsert(products, product_data)
                   ELSE products

\* upsert_product_data, line 244, then the images or the next record.
UpsertProductData(outcome) ==
    /\ ipc = "product_row"
    /\ ops' = Append(ops, Op("product_row", 0))
    /\ WriteProductData(pdata, outcome)
    /\ IF PostgresResult(outcome).tag = "raise"
       THEN Abort(PostgresResult(outcome).exc) /\ img' = img
       ELSE Goto("product_row") /\ exc' = exc
    /\ UNCHANGED <<stream, cur, pdata, s3url, clock, points, embeddings, objects>>
    /\ UNCHANGED <<crawlVars, callVars>>

\* the False upload_stream_to_s3 returns on ClientError
FalseValue == [type |-> "bool", value |-> FALSE]

\* s3_key of upload_stream_to_s3
S3Key(product_id, image_index) == [product_id |-> product_id, image |-> image_index]

\* upload_stream_to_s3 with the missing client swallowed like an upload
\* error: False, nothing raised.
UploadSwallowsMissingClient(product_id, image_index, outcome) ==
    IF outcome = "ok" THEN Return(S3Key(product_id, image_index))
    ELSE Return(FalseValue)

\* upload_stream_to_s3, what it gives its caller: NoCredentialsError when
\* get_s3_client returned None, the URL of the object when the upload went
\* through, False when the store answered ClientError.
UploadStreamToS3(product_id, image_index, outcome) ==
    IF outcome = "no_client" THEN Raise("NoCredentialsError")
    ELSE IF outcome = "ok" THEN Return(S3Key(product_id, image_index))
    ELSE Return(FalseValue)

\* upload_stream_to_s3 on the bucket: the object is put under its key when
\* the upload goes through.
PutObject(product_id, image_index, outcome) ==
    objects' = IF outcome = "ok" THEN objects \cup {S3Key(product_id, image_index)}
               ELSE objects

\* lines 247-253: the image is downloaded (stream_image_to_bytesio) and
\* uploaded (upload_stream_to_s3): a failed download raises, a missing client
\* raises NoCredentialsError, a ClientError of the store gives False.
UploadImage(outcome) ==
    /\ ipc = "upload"
    /\ IF outcome = "RequestException"
       THEN /\ Abort(outcome)
            /\ UNCHANGED <<img, s3url, objects, ops>>
       ELSE LET r == UploadStreamToS3(pdata.product_id, img, outcome)
            IN /\ ops' = Append(ops, Op("upload", img))
               /\ PutObject(pdata.product_id, img, outcome)
               /\ IF r.tag = "raise"
                  THEN Abort(r.exc) /\ UNCHANGED <<img, s3url>>
                  ELSE /\ s3url' = r.value
                       /\ Goto("upload")
                       /\ exc' = exc
    /\ UNCHANGED <<stream, cur, pdata, clock, points, products, embeddings, conns>>
    /\ UNCHANGED <<crawlVars, callVars>>

\* lines 254-274: the image is embedded (create_image_from_url raises
\* ValueError when it cannot be fetched) and its point upserted.
UpsertImagePoint(image, outcome) ==
    /\ ipc = "image_point"
    /\ IF image = "ValueError"
       THEN /\ Abort(image)
            /\ UNCHANGED <<img, ops, points, conns, clock>>
       ELSE /\ ops' = ops \o <<Op("embed_image", img), Op("image_point", img)>>
            /\ clock' = clock + 1
            /\ UpsertPoints(ImageCollection,
                            <<[id |-> GenerateVectorId(pdata.product_title, "image", img),
                               payload |-> [product_id |-> pdata.product_id,
                                            product_s3_image_url |-> s3url,
                                            embedding_type |-> "image"]]>>,
                            outcome)
            /\ IF outcome = "ok"
               THEN Goto("image_point") /\ exc' = exc
               ELSE Abort(outcome) /\ img' = img
    /\ UNCHANGED <<stream, cur, pdata, s3url, products, embeddings, objects>>
    /\ UNCHANGED <<crawlVars, callVars>>

\* INSERT INTO embeddings ... ON CONFLICT (vector_id) DO NOTHING.
EmbeddingsInsertIfAbsent(table, row) ==
    IF \E r \in table : r.vector_id = row.vector_id THEN table
    ELSE table \cup {row}

\* INSERT INTO embeddings ... ON CONFLICT (vector_id) DO UPDATE SET
\* product_image_index, product_s3_image_url, embedding_updated_at.
EmbeddingsUpsert(table, row) ==
    IF \E r \in table : r.vector_id = row.vector_id
    THEN {IF r.vector_id = row.vector_id
          THEN [r EXCEPT !.product_image_index = row.product_image_index,
                         !.product_s3_image_url = row.product_s3_image_url,
                         !.embedding_updated_at = row.embedding_updated_at]
          ELSE r : r \in table}
    ELSE table \cup {row}

\* product_image_embedding_data of lines 255-264
EmbeddingData(product_title, product_id, image_index, s3_image_url, now) ==
    [vector_id |-> GenerateVectorId(product_title, "image", image_index),
     product_id |-> product_id,
     product_image_index |-> image_index,
     product_s3_image_url |-> s3_image_url,
     embedding_type |-> "image",
     embedding_inserted_at |-> now,
     embedding_updated_at |-> now]

\* upsert_embedding_data on the stores, as upsert_product_data.
WriteEmbeddingData(embedding_data, outcome) ==
    /\ conns' = IF outcome = "no_connection" THEN conns
                ELSE [conns EXCEPT !.postgres = @ + 1]
    /\ embeddings' = IF outcome = "ok"
                     THEN EmbeddingsUpsert(embeddings, embedding_data)
                     ELSE embeddings

\* upsert_embedding_data, line 275, then the next image or the next record.
UpsertEmbeddingData(outcome) ==
    /\ ipc = "embedding_row"
    /\ ops' = Append(ops, Op("embedding_row", img))
    /\ WriteEmbeddingData(EmbeddingData(pdata.product_title, pdata.product_id,
                                        img, s3url, clock),
                          outcome)
    /\ IF PostgresResult(outcome).tag = "raise"
       THEN Abort(PostgresResult(outcome).exc) /\ img' = img
       ELSE Goto("embedding_row") /\ exc' = exc
    /\ UNCHANGED <<stream, cur, pdata, s3url, clock, points, products, objects>>
    /\ UNCHANGED <<crawlVars, callVars>>

\* ------------------------------------------------- functions on their own
NoCall == [fn |-> "none"]
CallInit ==
    /\ call = NoCall
    /\ ret = NoValue

\* The calls of get_product_urls_from_collection: what the request of the
\* listing page gives, and the limit.
UrlCalls ==
    [fn : {"get_product_urls_from_collection"}, outcome : ListingOutcomes,
     limit : 0..MaxAnchors]

\* get_product_urls_from_collection(collection_url, limit) runs.
CallGetProductUrls ==
    /\ call.fn = "get_product_urls_from_collection"
    /\ ret = NoValue
    /\ ret' = GetProductUrlsFromCollection(FetchResult(call.outcome), call.limit)
    /\ UNCHANGED <<crawlVars, ingestVars, call>>

\* The sinks called on their own.  The points a caller can hand to
\* upsert_points: two images of one product, the first with the URL of its
\* upload and without (the upload failed).
SinkPoints ==
    LET pid == GenerateProductId(<<"a">>)
        P(i, s) == [id |-> GenerateVectorId(<<"a">>, "image", i),
                    payload |-> [product_id |-> pid, product_s3_image_url |-> s,
                                 embedding_type |-> "image"]]
    IN {P(0, S3Key(pid, 0)), P(0, FalseValue), P(1, S3Key(pid, 1))}
PointLists ==
    {<<>>} \cup {<<p>> : p \in SinkPoints} \cup {<<p, q>> : p, q \in SinkPoints}

\* The product_data a caller can hand to upsert_product_data at time now:
\* that of the parsed page of every product, and one under the id of
\* another title.
ProductRows(now) ==
    LET Row(u) == ProductData(Tagged(ParseProductData(Site(u), u), category),
                              Site(u).title, now)
    IN {Row(u) : u \in {"/products/u1", "/products/u2"}}
         \cup {ProductData(Tagged(ParseProductData(Site("/products/u3"),
                                                   "/products/u3"), category),
                           NoTitleFound, now)}
         \cup {[Row("/products/u2") EXCEPT !.product_title = <<"b">>]}

\* The embedding_data a caller can hand to upsert_embedding_data at time now.
EmbeddingRows(now) ==
    LET pid == GenerateProductId(<<"a">>)
    IN {EmbeddingData(<<"a">>, pid, 0, S3Key(pid, 0), now),
        EmbeddingData(<<"a">>, pid, 0, FalseValue, now),
        EmbeddingData(<<"a">>, pid, 1, S3Key(pid, 1), now)}

\* upsert_points(collection_name, points) is called.
CallUpsertPoints(collection_name, pts, outcome) ==
    /\ clock < MaxCalls
    /\ clock' = clock + 1
    /\ call' = [fn |-> "upsert_points", collection_name |-> collection_name,
                points |-> pts, outcome |-> outcome]
    /\ ret' = UpsertPointsResult(collection_name, outcome)
    /\ UpsertPoints(collection_name, pts, outcome)
    /\ UNCHANGED <<stream, ipc, exc, cur, pdata, img, s3url, ops, products,
                   embeddings, objects>>
    /\ UNCHANGED crawlVars

\* upsert_product_data(product_data) is called.
CallUpsertProductData(product_data, outcome) ==
    /\ clock < MaxCalls
    /\ clock' = clock + 1
    /\ call' = [fn |-> "upsert_product_data", product_data |-> product_data,
                outcome |-> outcome]
    /\ ret' = PostgresResult(outcome)
    /\ WriteProductData(product_data, outcome)
    /\ UNCHANGED <<stream, ipc, exc, cur, pdata, img, s3url, ops, points,
                   embeddings, objects>>
    /\ UNCHANGED crawlVars

\* upsert_embedding_data(embedding_data) is called.
CallUpsertEmbeddingData(embedding_data, outcome) ==
    /\ clock < MaxCalls
    /\ clock' = clock + 1
    /\ call' = [fn |-> "upsert_embedding_data", embedding_data |-> embedding_data,
                outcome |-> outcome]
    /\ ret' = PostgresResult(outcome)
    /\ WriteEmbeddingData(embedding_data, outcome)
    /\ UNCHANGED <<stream, ipc, exc, cur, pdata, img, s3url, ops, points,
                   products, objects>>
    /\ UNCHANGED crawlVars

\* The calls of generate_vector_id: the titles include ones that end like
\* the rest of the hashed text.
Titles ==
    {<<"a">>, <<"a", "_", "1">>, <<"a", "_", "i", "m", "a", "g", "e", "_", "1">>,
     NoTitleFound}
VectorIdCalls ==
    [fn : {"generate_vector_id"}, product_title : Titles,
     embedding_type : {"text", "image"}, index : 0..MaxIndex]

\* generate_vector_id(product_title, embedding_type, index) runs.
CallGenerateVectorId ==
    /\ call.fn = "generate_vector_id"
    /\ ret = NoValue
    /\ ret' = Return(GenerateVectorId(call.product_title, call.embedding_type,
                                      call.index))
    /\ UNCHANGED <<crawlVars, ingestVars, call>>

\* upload_stream_to_s3(bucket_name, data_stream, product_id, image_index)
\* is called: the client is there or not, the store takes the object or
\* answers ClientError.
UploadOutcomes == {"ok", "ClientError", "no_client"}
UploadedProducts == {GenerateProductId(<<"a">>), GenerateProductId(NoTitleFound)}
CallUploadStreamToS3(product_id, image_index, outcome) ==
    /\ clock < MaxCalls
    /\ clock' = clock + 1
    /\ call' = [fn |-> "upload_stream_to_s3", product_id |-> product_id,
                image_index |-> image_index, outcome |-> outcome]
    /\ ret' = UploadStreamToS3(product_id, image_index, outcome)
    /\ PutObject(product_id, image_index, outcome)
    /\ UNCHANGED <<stream, ipc, exc, cur, pdata, img, s3url, ops, points,
                   products, embeddings, conns>>
    /\ UNCHANGED crawlVars

\* ingest_products_async run a second time over the same crawl: the first
\* run has ended, by return or by an exception; the sinks are as it left
\* them.
IngestRun(n, todo) == [fn |-> "ingest_products_async", run |-> n, urls |-> todo]
Reingest ==
    /\ call.fn = "ingest_products_async"
    /\ call.run = 1
    /\ ipc \in {"finished", "raised"}
    /\ call' = IngestRun(2, call.urls)
    /\ stream' = call.urls
    /\ ipc' = "next"
    /\ exc' = NoException
    /\ cur' = NoRecord
    /\ pdata' = NoRecord
    /\ img' = 0
    /\ s3url' = None
    /\ ops' = <<>>
    /\ UNCHANGED <<clock, points, products, embeddings, objects, conns, ret>>
    /\ UNCHANGED crawlVars

\* What the site and the stores answer in a run: anything in the first, and
\* in the second the page of the product and success throughout.
PageOutcomes(u) ==
    IF call.run = 1 THEN ProductOutcomes(u) ELSE {Response(StatusOK, Site(u))}
StoreOutcomes(all) == IF call.run = 1 THEN all ELSE {"ok"}

\* ---------------------------------------------------------- specifications
vars == <<crawlVars, ingestVars, callVars>>

\* scrape_stream on its own, its consumer taking every record at once.
Init == CrawlInit /\ IngestInit /\ stream = {} /\ CallInit
Next ==
    \/ \E t \in Fetchers : Acquire(t)
    \/ \E t \in Fetchers : IssueRequest(t)
    \/ \E o \in ListingOutcomes : DiscoverRespond(o)
    \/ FanOut
    \/ \E u \in Urls : \E o \in ProductOutcomes(u) : TaskRespond(u, o)
    \/ YieldRecord
    \/ YieldRaise
    \/ StreamEnd
Spec == Init /\ [][Next]_vars

\* The fetches of scrape_stream under the scheduling of the event loop: a
\* coroutine that can run is run (asyncio.Semaphore wakes its waiters in
\* turn, the sleep of request_delay ends) and every request ends, at the
\* latest by its timeout of 30 seconds.  No step of a fetch looks at what the
\* consumer of the stream has taken, which is left out here.
\* The listing pages of this run: one links every product, one links two of
\* them in another order, one links none; or the request fails.
FetchListings ==
    LET A(u) == [path |-> u, query |-> ""]
    IN {Response(StatusOK, ListingPage(<<A("/products/u1"), A("/products/u2"),
                                         A("/products/u3")>>)),
        Response(StatusOK, ListingPage(<<A("/products/u3"), A("/products/u1")>>)),
        Response(StatusOK, ListingPage(<<>>)),
        Response(StatusNotFound, NotFoundPage)} \cup Failures
InitFetch == Init /\ category = "jackets"
NextFetch ==
    \/ \E t \in Fetchers : Acquire(t)
    \/ \E t \in Fetchers : IssueRequest(t)
    \/ \E o \in FetchListings : DiscoverRespond(o)
    \/ FanOut
    \/ \E u \in Urls : \E o \in ProductOutcomes(u) : TaskRespond(u, o)
FetchFairness ==
    /\ \A t \in Fetchers : WF_vars(Acquire(t))
    /\ \A t \in Fetchers : WF_vars(IssueRequest(t))
    /\ WF_vars(\E o \in FetchListings : DiscoverRespond(o))
    /\ WF_vars(FanOut)
    /\ \A u \in Urls : WF_vars(\E o \in ProductOutcomes(u) : TaskRespond(u, o))
SpecFetch == InitFetch /\ [][NextFetch]_vars /\ FetchFairness

\* scrape_stream and its consumer under the scheduling of the event loop:
\* the fetches as above, and the consumer asks for the next record.
InitLive == Init /\ category = "jackets"
NextLive ==
    \/ \E t \in Fetchers : Acquire(t)
    \/ \E t \in Fetchers : IssueRequest(t)
    \/ \E o \in FetchListings : DiscoverRespond(o)
    \/ FanOut
    \/ \E u \in Urls : \E o \in ProductOutcomes(u) : TaskRespond(u, o)
    \/ YieldRecord
    \/ YieldRaise
    \/ StreamEnd
StreamFairness ==
    /\ FetchFairness
    /\ WF_vars(YieldRecord)
    /\ WF_vars(YieldRaise)
    /\ WF_vars(StreamEnd)
SpecLive == InitLive /\ [][NextLive]_vars /\ StreamFairness

\* ingest_products_async over the records of one crawl, each delivered as its
\* scrape_product task gives it.
InitIngest == CrawlInit /\ IngestInit /\ CallInit
NextIngest ==
    \/ \E u \in Urls : \E o \in ProductOutcomes(u) : Deliver(u, o)
    \/ Finish
    \/ \E o \in QdrantOutcomes : UpsertTextPoint(o)
    \/ \E o \in PostgresOutcomes : UpsertProductData(o)
    \/ \E o \in S3Outcomes : UploadImage(o)
    \/ \E i \in ImageOutcomes : \E o \in QdrantOutcomes : UpsertImagePoint(i, o)
    \/ \E o \in PostgresOutcomes : UpsertEmbeddingData(o)
SpecIngest == InitIngest /\ [][NextIngest]_vars

\* get_product_urls_from_collection applied to every listing outcome and
\* limit.
InitUrls == CrawlInit /\ IngestInit /\ stream = {} /\ call \in UrlCalls /\ ret = NoValue
NextUrls == CallGetProductUrls
SpecUrls == InitUrls /\ [][NextUrls]_vars

\* The three sink operations called in any order, with any of their inputs;
\* the sinks take the category as one more field of the record, so one
\* category stands for all.
InitSinks ==
    /\ CrawlInit /\ IngestInit /\ stream = {} /\ CallInit
    /\ category = "jackets"
NextSinks ==
    \/ \E c \in Collections : \E pts \in PointLists : \E o \in QdrantOutcomes :
          CallUpsertPoints(c, pts, o)
    \/ \E row \in ProductRows(clock + 1) : \E o \in PostgresOutcomes :
          CallUpsertProductData(row, o)
    \/ \E row \in EmbeddingRows(clock + 1) : \E o \in PostgresOutcomes :
          CallUpsertEmbeddingData(row, o)
SpecSinks == InitSinks /\ [][NextSinks]_vars

\* One record ingested, the run ending anywhere, and then ingested again in
\* full.
InitReingest ==
    /\ CrawlInit /\ IngestInit
    /\ Cardinality(stream) = 1
    /\ call = IngestRun(1, stream)
    /\ ret = NoValue
NextReingest ==
    \/ \E u \in Urls : \E o \in PageOutcomes(u) : Deliver(u, o)
    \/ Finish
    \/ \E o \in StoreOutcomes(QdrantOutcomes) : UpsertTextPoint(o)
    \/ \E o \in StoreOutcomes(PostgresOutcomes) : UpsertProductData(o)
    \/ \E o \in StoreOutcomes(S3Outcomes) : UploadImage(o)
    \/ \E i \in StoreOutcomes(ImageOutcomes) : \E o \in StoreOutcomes(QdrantOutcomes) :
          UpsertImagePoint(i, o)
    \/ \E o \in StoreOutcomes(PostgresOutcomes) : UpsertEmbeddingData(o)
    \/ Reingest
SpecReingest == InitReingest /\ [][NextReingest]_vars

\* upload_stream_to_s3 called any number of times.
InitUpload == CrawlInit /\ IngestInit /\ stream = {} /\ CallInit
NextUpload ==
    \E p \in UploadedProducts : \E i \in 0..1 : \E o \in UploadOutcomes :
        CallUploadStreamToS3(p, i, o)
SpecUpload == InitUpload /\ [][NextUpload]_vars

\* The pages the parser is run on by itself.  FullPage has every optional
\* section; a presence page keeps a subset of them; an image page and a
\* size page run the two loops over every list within the bounds, made of
\* sources that differ only in their query, an <img> with a srcset only, an
\* <img> with no source, and buttons with and without a text.
OptionalSections ==
    {"title", "price", "images", "details", "financing", "tagline", "sizes"}
ImageElements ==
    {[path |-> "a.jpg", query |-> "x=1"], [path |-> "a.jpg", query |-> "x=2"],
     [path |-> "b.jpg", query |-> ""],
     [srcset |-> <<[path |-> "b.jpg", query |-> "w=2"]>>],
     [alt |-> "model"]}
ButtonTexts == {<<"Size", "M">>, <<"M">>, <<"L">>, <<>>}
FullPage ==
    [type |-> "str", page |-> "product",
     title |-> <<"a", " ", "-", "x">>,
     price |-> <<" ", "1", "0">>,
     images |-> <<[path |-> "a.jpg", query |-> "x=1"],
                  [path |-> "a.jpg", query |-> "x=2"],
                  [path |-> "b.jpg", query |-> ""]>>,
     details |-> <<"cotton">>,
     financing |-> <<"or", "4", "payments", "of", "£25.00">>,
     tagline |-> "new in",
     sizes |-> <<<<"Size", "M">>, <<"M">>>>]
PresencePages ==
    {[f \in {"type", "page"} \cup S |-> FullPage[f]] :
        S \in SUBSET OptionalSections}
ImagePages ==
    {[type |-> "str", page |-> "product", images |-> l] :
        l \in UNION {[1..n -> ImageElements] : n \in 0..MaxImages}}
SizePages ==
    {[type |-> "str", page |-> "product", sizes |-> l] :
        l \in UNION {[1..n -> ButtonTexts] : n \in 0..MaxSizes}}
ParserCalls ==
    [fn : {"_parse_product_data"},
     html : PresencePages \cup ImagePages \cup SizePages,
     url : {"/products/u1"}]

\* one call of WebScraper._parse_product_data
CallParseProductData ==
    /\ call.fn = "_parse_product_data"
    /\ ret = NoValue
    /\ ret' = Return(ParseProductData(call.html, call.url))
    /\ UNCHANGED <<crawlVars, ingestVars, call>>

InitParse ==
    /\ CrawlInit /\ IngestInit /\ stream = {}
    /\ call \in ParserCalls
    /\ ret = NoValue
NextParse == CallParseProductData
SpecParse == InitParse /\ [][NextParse]_vars

\* generate_vector_id applied to every title, type and index.
InitIds ==
    /\ CrawlInit /\ IngestInit /\ stream = {}
    /\ call \in VectorIdCalls
    /\ ret = NoValue
NextIds == CallGenerateVectorId
SpecIds == InitIds /\ [][NextIds]_vars

\* ------------------------------------------------------------------ claims
Range(s) == {s[i] : i \in 1..Len(s)}
\* the fan-out of scrape_stream has happened: urls is the deduplicated list
FannedOut == \E u \in Urls : fpc[u] # "none"
Discovered == IF FannedOut THEN Range(urls) ELSE {}
YieldsOf(u) == {i \in 1..Len(yielded) : yielded[i].ProductURL = u}

\* C1: at no time are more HTTP requests in flight than the admission
\* ceiling concurrent_requests, listing-page and product-page fetches alike.
C1_ConcurrencyBound == Cardinality(InFlight) <= ConcurrentRequests

\* C1 witness: the ceiling is reached while a further task waits at the gate.
C1_Witness ==
    /\ Cardinality(InFlight) = ConcurrentRequests
    /\ \E u \in Urls : fpc[u] = "waiting"

\* C2: records are yielded in task completion order: the i-th record yielded
\* is that of the i-th task to complete, and while a completed task has not
\* been yielded the loop has a next result to take, whatever is in flight.
C2_CompletionOrder ==
    /\ \A i \in 1..Len(yielded) : yielded[i].ProductURL = completed[i]
    /\ (gen = "fanout" /\ Len(yielded) < Len(completed)) => NextDone # {}

\* C2 witness: the first record yielded is not that of the first URL
\* submitted, which is still in flight.
C2_Witness ==
    /\ Len(yielded) >= 1
    /\ yielded[1].ProductURL # urls[1]
    /\ fpc[urls[1]] = "requesting"

\* C7 as claimed: once the stream is over, every discovered URL had exactly
\* one fetch attempt and exactly one record yielded.
C7_ExactlyOneRecord ==
    gen \in {"done", "raised"} =>
        \A u \in Discovered : issued[u] = 1 /\ Cardinality(YieldsOf(u)) = 1

\* C8 as claimed: a transport-level failure of the request (connection
\* error or timeout) makes _fetch return None, never raise.
C8_TransportFailureIsNone ==
    \A t \in Fetchers : resp[t].kind = "exception" => fetched[t] = Return(None)

\* C9: a response whose status is not 200 makes _fetch return None without
\* raising, and _fetch returns a body only for status 200.
C9_StatusGate ==
    \A t \in Fetchers :
        /\ (resp[t].kind = "response" /\ resp[t].status # StatusOK)
              => fetched[t] = Return(None)
        /\ (fetched[t].tag = "return" /\ fetched[t].value # None)
              => (resp[t].kind = "response" /\ resp[t].status = StatusOK
                    /\ fetched[t].value = resp[t].body)

\* C9 witness: a product fetch was answered 404 with a body and gave None.
C9_Witness ==
    \E u \in Urls :
        /\ fpc[u] = "done"
        /\ resp[u] = Response(StatusNotFound, NotFoundPage)
        /\ fetched[u] = Return(None)

\* C10 as claimed: the parser runs only when the fetch returned a body; None
\* gives exactly the error record, and any body gives a parsed record.
C10_ParserIffBody ==
    \A u \in Urls :
        (fpc[u] = "done" /\ fetched[u].tag = "return") =>
            IF fetched[u].value = None
            THEN parsed[u] = 0 /\ result[u] = Return(ErrorRecord(u))
            ELSE /\ parsed[u] = 1
                 /\ result[u].tag = "return"
                 /\ "error" \notin DOMAIN result[u].value

\* C10 amended: the parser runs only when the fetch returned a non-empty
\* body; None or the empty body gives exactly the error record, and a
\* non-empty body gives a parsed record without the error field.
C10_ParserIffNonEmptyBody ==
    \A u \in Urls :
        (fpc[u] = "done" /\ fetched[u].tag = "return") =>
            IF fetched[u].value \in {None, EmptyBody}
            THEN parsed[u] = 0 /\ result[u] = Return(ErrorRecord(u))
            ELSE /\ parsed[u] = 1
                 /\ result[u] = Return(ParseProductData(fetched[u].value, u))
                 /\ "error" \notin DOMAIN result[u].value

\* C10 witness: one task got the empty body of a 200 response and gave the
\* error record, another got a page and gave a parsed record.
C10_Witness ==
    \E u, v \in Urls :
        /\ fpc[u] = "done" /\ fetched[u] = Return(EmptyBody)
        /\ result[u] = Return(ErrorRecord(u))
        /\ fpc[v] = "done" /\ parsed[v] = 1
        /\ "ProductTitle" \in DOMAIN result[v].value

\* The sink writes among the operations of the record in hand.
IsSinkWrite(o) == o.op \in {"text_point", "product_row", "upload", "image_point",
                            "embedding_row"}
SinkWrites == SelectSeq(ops, IsSinkWrite)

\* The writes of one image, and of a record of n images, in the order of
\* lines 243-275.
RECURSIVE ImageWrites(_, _)
ImageWrites(i, n) ==
    IF i >= n THEN <<>>
    ELSE <<Op("upload", i), Op("image_point", i), Op("embedding_row", i)>>
            \o ImageWrites(i + 1, n)
RecordWrites(n) == <<Op("text_point", 0), Op("product_row", 0)>> \o ImageWrites(0, n)

IsPrefix(s, t) == Len(s) <= Len(t) /\ SubSeq(t, 1, Len(s)) = s

\* The place of a write in the order the claim gives: uploads, then vector
\* upserts, then the product row.
ClaimedRank(o) ==
    CASE o.op = "upload" -> 1
      [] o.op \in {"text_point", "image_point"} -> 2
      [] o.op = "product_row" -> 3
      [] OTHER -> 0

\* C3 as claimed: for each record the image uploads come first, then the
\* vector upserts, and the product row last.
C3_UploadsVectorsThenRow ==
    \A i, j \in 1..Len(SinkWrites) :
        (i < j /\ ClaimedRank(SinkWrites[i]) > 0 /\ ClaimedRank(SinkWrites[j]) > 0)
            => ClaimedRank(SinkWrites[i]) <= ClaimedRank(SinkWrites[j])

\* C3 amended: for each record the writes are attempted in the order text
\* vector, product row, then image by image in ordinal order: upload, image
\* vector, embeddings row.
C3_TextRowThenImages ==
    IsParsedRecord(cur) => IsPrefix(SinkWrites, RecordWrites(pdata.num_images))

\* C3 witness: every write of a record of two images was attempted.
C3_Witness ==
    /\ IsParsedRecord(cur)
    /\ pdata.num_images = 2
    /\ SinkWrites = RecordWrites(2)

\* the exceptions a failing sink write raises
SinkExceptions == {"UnexpectedResponse", "ConnectionError"}

\* C4 as claimed: a failing sink write is caught at that sink, so it never
\* ends the ingestion of the record in hand and of the records to come.
C4_SinkFailureIsCaught == ~(ipc = "raised" /\ exc \in SinkExceptions)

\* C5 as claimed: the record of a failed fetch does not stop the ingest
\* loop, which goes on to the remaining records of the stream.
C5_FailedFetchSkipsOnlyItsUrl == ~(ipc = "raised" /\ IsErrorRecord(cur))

\* C6: a record carrying the error field leaves the three sinks as they are
\* and has no caption, embedding, upload or upsert attempted for it.
C6_ErrorRecordTouchesNoSink ==
    [][IsErrorRecord(cur') => (sinkVars' = sinkVars /\ ops' = <<>>)]_vars

\* C6 witness: an error record was delivered after another record had been
\* written to the sinks.
C6_Witness ==
    /\ IsErrorRecord(cur)
    /\ products # {}

\* the scrape_product tasks launched and not yet yielded
Outstanding == Cardinality({u \in Urls : fpc[u] # "none"}) - Len(yielded)

\* C11 as claimed: the outstanding fetch+parse tasks of one scrape_stream
\* invocation never number more than limit_per_page.
C11_OutstandingWithinLimitPerPage == Outstanding <= LimitPerPage

\* C11: the outstanding fetch+parse tasks of one scrape_stream invocation
\* never number more than number_of_pages * limit_per_page: each listing
\* page adds at most limit_per_page URLs to the list the tasks are made of.
C11_OutstandingWithinPagesTimesLimit ==
    /\ Outstanding <= NumberOfPages * LimitPerPage
    /\ gen = "discover" => Len(urls) <= (page - 1) * LimitPerPage

\* C11 witness: tasks of more than one listing page are outstanding at once,
\* more of them than limit_per_page.
C11_Witness ==
    /\ gen = "fanout"
    /\ Outstanding > LimitPerPage

\* discovery is over: every listing page was processed, the generator
\* fetches no more, and urls is the deduplicated list
DiscoveryComplete ==
    /\ gen # "discover"
    /\ page = NumberOfPages + 1
    /\ issued[Gen] = NumberOfPages
    /\ fpc[Gen] = "none"
    /\ urls = Dedup(urls)

\* listing pages are requested one at a time, in page order: the requests
\* issued are those of the pages processed, and that of the page in hand
\* once it is in flight
OnePageAtATime ==
    gen # "raised" =>
        issued[Gen] = (page - 1) + (IF fpc[Gen] = "requesting" THEN 1 ELSE 0)

\* C12: discovery is sequential and complete before fan-out: listing pages
\* are fetched one at a time in page order, no product task exists before
\* the last listing page was processed and urls deduplicated, and urls does
\* not change while product tasks exist.
C12_DiscoveryBeforeFanOut ==
    /\ [](OnePageAtATime /\ (FannedOut => DiscoveryComplete))
    /\ [][/\ page' \in {page, page + 1}
          /\ FannedOut => urls' = urls]_vars

\* C12 witness: after the last listing page, a product task of a list of
\* several URLs has its request in flight.
C12_Witness ==
    /\ DiscoveryComplete
    /\ Len(urls) > 1
    /\ \E u \in Urls : fpc[u] = "requesting"

ListingFetchFailed ==
    /\ resp[Gen] # NoOutcome
    /\ resp[Gen].kind = "response" => resp[Gen].status # StatusOK

\* C14 as claimed: a listing page whose fetch fails raises nothing and
\* adds nothing: the generator is not left by an exception during
\* discovery, and goes on to the next page with urls as it was.
C14_ListingFailureIsSoft ==
    ListingFetchFailed => (gen = "discover" /\ fetched[Gen] = Return(None))

\* the anchors of the listing page the call was given, in document order
CalledAnchors ==
    IF "outcome" \in DOMAIN call /\ call.outcome.kind = "response"
    THEN Section(call.outcome.body, "anchors", <<>>) ELSE <<>>
\* the positions of the product anchors, and the distinct URLs they give
\* once query and fragment are stripped
ProductAnchors == {i \in 1..Len(CalledAnchors) : CalledAnchors[i].path \in Urls}
DistinctUrls == {CalledAnchors[i].path : i \in ProductAnchors}
FirstSeen(u) ==
    CHOOSE i \in ProductAnchors :
        /\ CalledAnchors[i].path = u
        /\ \A j \in ProductAnchors : CalledAnchors[j].path = u => i <= j
Min(a, b) == IF a < b THEN a ELSE b

\* C15: for every anchor sequence and limit, what
\* get_product_urls_from_collection returns has no duplicates, holds
\* canonical product URLs of the page in first-seen order, has length
\* min(limit, number of distinct URLs), and is made of the first-seen
\* distinct URLs: deduplication comes before truncation.
C15_FirstLimitOfDedup ==
    (call # NoCall /\ ret # NoValue /\ call.outcome.kind = "response"
        /\ call.outcome.status = StatusOK /\ call.outcome.body # EmptyBody) =>
        /\ ret.tag = "return"
        /\ LET out == ret.value
           IN /\ \A i, j \in 1..Len(out) : i < j =>
                    /\ out[i] # out[j]
                    /\ FirstSeen(out[i]) < FirstSeen(out[j])
              /\ Range(out) \subseteq DistinctUrls
              /\ Len(out) = Min(call.limit, Cardinality(DistinctUrls))
              /\ \A u \in DistinctUrls \ Range(out) : \A v \in Range(out) :
                    FirstSeen(v) < FirstSeen(u)

\* C15 witness: a call in which both steps bite: the page repeats a product
\* URL, and holds more distinct URLs than the limit lets through.
C15_Witness ==
    /\ call # NoCall
    /\ ret # NoValue
    /\ ret.tag = "return"
    /\ Cardinality(DistinctUrls) < Cardinality(ProductAnchors)
    /\ 0 < Len(ret.value)
    /\ Len(ret.value) < Cardinality(DistinctUrls)

\* the step is a call of upsert_product_data whose statement was committed
ProductUpserted ==
    /\ clock' # clock
    /\ call'.fn = "upsert_product_data"
    /\ call'.outcome = "ok"
ProductIds(table) == {r.product_id : r \in table}
OneRowPerProductId(table) ==
    \A r1, r2 \in table : r1.product_id = r2.product_id => r1 = r2
\* the row of the table under the id of the product_data of the call
RowOf(table, product_data) ==
    CHOOSE r \in table : r.product_id = product_data.product_id
Conflict(product_data) == product_data.product_id \in ProductIds(products)

\* C16: after any sequence of upsert_product_data calls the products table
\* holds exactly one row per ProductId upserted; an upsert under an id the
\* table holds keeps the row's insertion timestamp and sets its update
\* timestamp to that of this upsert; under a new id the row takes both from
\* the record.
C16_OneRowPerProductId ==
    /\ []OneRowPerProductId(products)
    /\ [][ProductUpserted =>
            LET new == call'.product_data
            IN /\ ProductIds(products') = ProductIds(products) \cup {new.product_id}
               /\ OneRowPerProductId(products')
               /\ RowOf(products', new).product_updated_at = new.product_updated_at
               /\ RowOf(products', new).product_inserted_at =
                    IF Conflict(new) THEN RowOf(products, new).product_inserted_at
                    ELSE new.product_inserted_at]_vars

\* C16 witness: the same record was upserted a second time: its row has the
\* insertion timestamp of the first upsert and the update timestamp of the
\* second.
C16_Witness ==
    /\ call.fn = "upsert_product_data"
    /\ call.outcome = "ok"
    /\ \E r \in products :
         /\ r.product_id = call.product_data.product_id
         /\ r.description = call.product_data.description
         /\ r.product_url = call.product_data.product_url
         /\ r.product_inserted_at < r.product_updated_at
         /\ r.product_updated_at = clock

\* the columns ON CONFLICT DO UPDATE sets, and the other columns of a row
MutableColumns ==
    {"price", "num_images", "product_images", "product_s3_image_urls",
     "product_url", "product_category", "product_updated_at"}
KeptColumns == {"product_id", "product_title", "description", "product_inserted_at"}

PointsUpserted ==
    /\ clock' # clock
    /\ call'.fn = "upsert_points"
    /\ call'.collection_name \in AllowedCollections
    /\ call'.outcome = "ok"
OnePointPerVectorId(collection) ==
    \A p, q \in collection : p.id = q.id => p = q
\* the last point of the list under the id
LastWrite(pts, id) ==
    LET last == CHOOSE i \in 1..Len(pts) :
                    /\ pts[i].id = id
                    /\ \A j \in 1..Len(pts) : pts[j].id = id => j <= i
    IN pts[last]

\* C18: every collection holds one point per VectorId at all times; an
\* accepted upsert_points into an allowed collection leaves, under each id
\* of its list, exactly the last point the list has for it, inserted or
\* overwritten, and touches no other point; upserting points the
\* collection already holds changes nothing.
C18_OnePointPerVectorId ==
    /\ [](\A c \in Collections : OnePointPerVectorId(points[c]))
    /\ [][PointsUpserted =>
            LET c == call'.collection_name
                pts == call'.points
                ids == {pts[i].id : i \in 1..Len(pts)}
            IN /\ \A id \in ids :
                     {q \in points'[c] : q.id = id} = {LastWrite(pts, id)}
               /\ {q \in points'[c] : q.id \notin ids}
                     = {q \in points[c] : q.id \notin ids}
               /\ \A d \in Collections \ {c} : points'[d] = points[d]
               /\ (Range(pts) \subseteq points[c]) => points' = points]_vars

\* C18 witness: after earlier calls, a list held two points of one id with
\* different payloads: the collection holds the last of them alone.
C18_Witness ==
    /\ clock > 1
    /\ call.fn = "upsert_points"
    /\ call.collection_name \in AllowedCollections
    /\ call.outcome = "ok"
    /\ Len(call.points) = 2
    /\ call.points[1].id = call.points[2].id
    /\ call.points[1] # call.points[2]
    /\ points[call.collection_name] = {call.points[2]}
    /\ ret = Return(None)

\* the step is a call of upsert_points under a name outside the allow-list
UpsertRejected ==
    /\ clock' # clock
    /\ call'.fn = "upsert_points"
    /\ call'.collection_name \notin AllowedCollections

\* C19: upsert_points under a collection name outside the two allowed names
\* leaves every collection of the index as it was and returns without
\* raising, whatever the list of points.
C19_RejectedNameIsNoOp ==
    [][UpsertRejected => (points' = points /\ ret' = Return(None))]_vars

\* C19 witness: a list of points was passed under another name, the store
\* ready to take it and the allowed collections not empty.
C19_Witness ==
    /\ call.fn = "upsert_points"
    /\ call.collection_name = OtherCollection
    /\ call.points # <<>>
    /\ call.outcome = "ok"
    /\ ret = Return(None)
    /\ points[ImageCollection] # {}
    /\ points[OtherCollection] = {}

\* C20 as claimed: once a sink operation has returned, no store connection
\* it opened is left open.
C20_NoOpenConnections == conns.qdrant = 0 /\ conns.postgres = 0

\* The second run of the record has completed.
ReingestedInFull ==
    /\ call.fn = "ingest_products_async"
    /\ call.run = 2
    /\ ipc = "finished"
\* the record of the run, as the page of its URL gives it
TheUrl == CHOOSE u \in Urls : call.urls = {u}
TheRecord == Tagged(ParseProductData(Site(TheUrl), TheUrl), category)
TheTitle == CanonicalTitle(TheRecord.ProductTitle)
TheImages == 0..(TheRecord.NoOfImages - 1)
\* a row without its timestamps
Untimed(row, stamps) == [f \in DOMAIN row \ stamps |-> row[f]]
ProductStamps == {"product_inserted_at", "product_updated_at"}
EmbeddingStamps == {"embedding_inserted_at", "embedding_updated_at"}

\* C21: a record ingested again in full, after a first ingestion that ended
\* anywhere among its sink writes, leaves the sinks as one failure-free
\* ingestion does: one product row with the record's values, one text
\* point, and per image one object, one image point and one embeddings row
\* carrying the URL of the upload; nothing is duplicated.
C21_ReingestionIsIdempotent ==
    ReingestedInFull =>
        LET pid == GenerateProductId(TheTitle)
        IN /\ {Untimed(r, ProductStamps) : r \in products}
                = {Untimed(ProductData(TheRecord, TheRecord.ProductTitle, 0),
                           ProductStamps)}
           /\ Cardinality(products) = 1
           /\ points[TextCollection]
                = {[id |-> GenerateVectorId(TheTitle, "text", 0),
                    payload |-> [product_id |-> pid,
                                 num_images |-> TheRecord.NoOfImages,
                                 embedding_type |-> "text"]]}
           /\ points[ImageCollection]
                = {[id |-> GenerateVectorId(TheTitle, "image", i),
                    payload |-> [product_id |-> pid,
                                 product_s3_image_url |-> S3Key(pid, i),
                                 embedding_type |-> "image"]] : i \in TheImages}
           /\ objects = {S3Key(pid, i) : i \in TheImages}
           /\ {Untimed(e, EmbeddingStamps) : e \in embeddings}
                = {Untimed(EmbeddingData(TheTitle, pid, i, S3Key(pid, i), 0),
                           EmbeddingStamps) : i \in TheImages}
           /\ Cardinality(embeddings) = Cardinality(TheImages)

\* C21 witness: the first run wrote the product row and stopped before the
\* embeddings row of some image, which the second run alone wrote.
C21_Witness ==
    /\ ReingestedInFull
    /\ \E r \in products : r.product_inserted_at < r.product_updated_at
    /\ \E e \in embeddings :
         /\ e.embedding_inserted_at = e.embedding_updated_at
         /\ \E r \in products : r.product_inserted_at < e.embedding_inserted_at
    /\ \E e \in embeddings : e.embedding_inserted_at < e.embedding_updated_at

\* C22 as claimed: once a record was ingested in full, every point of the
\* vector index, text or image, has an embeddings row under its VectorId,
\* with the ProductId and the embedding kind of the point; the row of a
\* text point has no image ordinal and no object-store URL.
C22_EveryVectorHasEmbeddingRow ==
    ReingestedInFull =>
        \A c \in AllowedCollections : \A p \in points[c] :
            \E e \in embeddings :
                /\ e.vector_id = p.id
                /\ e.product_id = p.payload.product_id
                /\ e.embedding_type = p.payload.embedding_type
                /\ e.embedding_type = "text" =>
                      (e.product_image_index = None /\ e.product_s3_image_url = None)

\* the step is a call of upload_stream_to_s3 with this outcome
Uploading(outcome) ==
    /\ clock' # clock
    /\ call'.fn = "upload_stream_to_s3"
    /\ call'.outcome = outcome

\* C23: without a client upload_stream_to_s3 raises NoCredentialsError and
\* uploads nothing; on a ClientError of the store it returns False and
\* raises nothing; when the upload goes through it returns the URL of the
\* object it has put.
C23_MissingCredentialsRaise ==
    [][/\ Uploading("no_client") =>
            (ret' = Raise("NoCredentialsError") /\ objects' = objects)
       /\ Uploading("ClientError") =>
            (ret' = Return(FalseValue) /\ objects' = objects)
       /\ Uploading("ok") =>
            /\ ret' = Return(S3Key(call'.product_id, call'.image_index))
            /\ objects' = objects \cup {S3Key(call'.product_id, call'.image_index)}]_vars

\* C23 witness: after an upload that went through and one the store
\* refused, a call finds no client and raises.
C23_Witness ==
    /\ call.fn = "upload_stream_to_s3"
    /\ call.outcome = "no_client"
    /\ ret = Raise("NoCredentialsError")
    /\ clock = 3
    /\ Cardinality(objects) = 1

\* C24: in every fetch the steps come in the order acquire, delay, request,
\* release: a fetch at the gate only moves on by taking a slot, without a
\* request; the delay is served holding the slot and ends with the request
\* being issued; the slot is given back only once the request has ended;
\* and a request is issued from nowhere else.
C24_AcquireDelayRequestRelease ==
    [][\A t \in Fetchers :
         /\ (fpc[t] = "waiting" /\ fpc'[t] # "waiting") =>
               /\ fpc'[t] = "sleeping"
               /\ sem' = sem - 1
               /\ issued'[t] = issued[t]
         /\ (fpc[t] = "sleeping" /\ fpc'[t] # "sleeping") =>
               /\ fpc'[t] = "requesting"
               /\ sem' = sem
               /\ issued'[t] = issued[t] + 1
         /\ (fpc[t] = "requesting" /\ fpc'[t] # "requesting") =>
               /\ fpc'[t] \in {"done", "waiting", "none"}
               /\ sem' = sem + 1
               /\ issued'[t] = issued[t]
         /\ issued'[t] # issued[t] => fpc[t] = "sleeping"]_vars

\* C24 witness: one fetch has gone through all four steps while another
\* serves its delay, holding a slot, its request not yet issued.
C24_Witness ==
    /\ \E t \in Urls : fpc[t] = "done" /\ issued[t] = 1
    /\ \E t \in Urls : fpc[t] = "sleeping" /\ issued[t] = 0
    /\ sem < ConcurrentRequests

\* the (type, index) pairs ingest_products_async asks an id for: the text
\* vector (index left at its default 0) and the image vector of each ordinal
UsedVectors == {<<"text", 0>>} \cup {<<"image", i>> : i \in 0..MaxIndex}

\* C25: the text hashed for a VectorId tells the vectors of one product
\* apart: for a title T, the text of the id generated for one of (T, text),
\* (T, image, i) differs from that of every other such vector of T, and is
\* the same whenever the id is generated again.
C25_VectorIdInputInjective ==
    (call.fn = "generate_vector_id" /\ ret # NoValue
        /\ <<call.embedding_type, call.index>> \in UsedVectors) =>
        /\ ret = Return(GenerateVectorId(call.product_title, call.embedding_type,
                                         call.index))
        /\ \A v \in UsedVectors \ {<<call.embedding_type, call.index>>} :
              GenerateVectorId(call.product_title, v[1], v[2]).sha256
                  # ret.value.sha256

\* C25 witness: the id of an image vector of a two-digit ordinal was
\* generated for a title that itself ends in "_image_1".
C25_Witness ==
    /\ call.fn = "generate_vector_id"
    /\ ret # NoValue
    /\ call.embedding_type = "image"
    /\ call.index > 9
    /\ Len(call.product_title) > 3

\* the parser was called and has returned
Parsed == call # NoCall /\ call.fn = "_parse_product_data" /\ ret # NoValue
\* the page of the call has the section
Has(section) == section \in DOMAIN call.html
\* the sources of the page with their queries taken off, in document order
StrippedSources ==
    LET images == IF Has("images") THEN call.html.images ELSE <<>>
        Src(image) == IF "path" \in DOMAIN image THEN <<image.path>>
                    ELSE IF "srcset" \in DOMAIN image /\ image.srcset # <<>>
                         THEN <<image.srcset[1].path>>
                    ELSE <<>>
        F[i \in 0..Len(images)] ==
            IF i = 0 THEN <<>> ELSE F[i - 1] \o Src(images[i])
    IN F[Len(images)]
\* the size of every button with a text, in document order
ButtonSizes ==
    LET buttons == IF Has("sizes") THEN call.html.sizes ELSE <<>>
        F[i \in 0..Len(buttons)] ==
            IF i = 0 THEN <<>>
            ELSE IF buttons[i] = <<>> THEN F[i - 1]
            ELSE F[i - 1] \o <<buttons[i][Len(buttons[i])]>>
    IN F[Len(buttons)]
\* where x first occurs in s
FirstAt(s, x) == CHOOSE i \in 1..Len(s) : s[i] = x /\ \A j \in 1..(i - 1) : s[j] # x
\* out holds each thing of s once, in the order of first occurrence in s
FirstOccurrences(out, s) ==
    /\ Range(out) = Range(s)
    /\ \A i, j \in 1..Len(out) : i < j =>
          /\ out[i] # out[j]
          /\ FirstAt(s, out[i]) < FirstAt(s, out[j])

\* C26: in every record the parser returns, the image URL list holds each
\* query-stripped source once, in the order of first occurrence (sources
\* that differ only in their query count once), the image count is the
\* length of that list, and the size list holds each size once, in the
\* order of first occurrence.
C26_ImagesAndSizesDeduplicated ==
    Parsed =>
        /\ ret.tag = "return"
        /\ FirstOccurrences(ret.value.ProductImages, StrippedSources)
        /\ ret.value.NoOfImages = Len(ret.value.ProductImages)
        /\ FirstOccurrences(ret.value.SizeOptions, ButtonSizes)

\* C26 witness: a page whose first two sources differ only in their query
\* and whose third is another image: the record lists two images, in order.
C26_Witness ==
    /\ Parsed
    /\ Has("images")
    /\ Len(call.html.images) = 3
    /\ StrippedSources = <<"a.jpg", "a.jpg", "b.jpg">>
    /\ call.html.images[1] # call.html.images[2]
    /\ ret.value.ProductImages = <<"a.jpg", "b.jpg">>
    /\ ret.value.NoOfImages = 2

\* the documented value of the field of an absent section, the financing
\* being the one in question
DefaultsWith(financing) ==
    [title |-> [field |-> "ProductTitle", value |-> NoTitleFound],
     price |-> [field |-> "ProductPrice", value |-> NoPriceFound],
     images |-> [field |-> "ProductImages", value |-> <<>>],
     details |-> [field |-> "ProductDetails", value |-> <<>>],
     sizes |-> [field |-> "SizeOptions", value |-> <<>>],
     financing |-> [field |-> "Financing", value |-> financing],
     tagline |-> [field |-> "PromoTagline", value |-> None]]
\* the record of the page with every optional section
FullRecord == ParseProductData(FullPage, "/products/u1")
\* the parser returns; the field of each absent section is its default and
\* the field of each present section is what the full page gives it,
\* whatever the other sections are
AbsencesResolved(defaults) ==
    (Parsed /\ call.html \in PresencePages) =>
        /\ ret.tag = "return"
        /\ \A s \in OptionalSections :
              LET d == defaults[s]
              IN IF Has(s) THEN ret.value[d.field] = FullRecord[d.field]
                 ELSE ret.value[d.field] = d.value
        /\ (~Has("images")) => ret.value.NoOfImages = 0

\* C27 (as stated): an absent financing section gives a null financing.
C27_AbsentFinancingIsNull == AbsencesResolved(DefaultsWith(None))

\* C27: the parser returns on every subset of missing optional sections and
\* resolves each absence by itself: title "No title found", price
\* "No price found", empty lists for images, details and sizes, a null
\* tagline, and for the financing an empty mapping.
C27_AbsencesResolvedToDefaults == AbsencesResolved(DefaultsWith(EmptyDict))

\* C27 witness: the page with no optional section at all, parsed.
C27_Witness ==
    /\ Parsed
    /\ \A s \in OptionalSections : ~Has(s)
    /\ ret.tag = "return"
    /\ ret.value.Financing = EmptyDict
    /\ ret.value.PromoTagline = None
    /\ ret.value.ProductTitle = NoTitleFound

\* the slots held, and the fetches between acquire and return
HeldSlots == ConcurrentRequests - sem
BetweenAcquireAndReturn == {t \in Fetchers : fpc[t] \in {"sleeping", "requesting"}}
AllFetchesOver == \A t \in Fetchers : fpc[t] \in {"none", "done"}
\* the _fetch of t leaves the semaphore in this step
Exits(t) == fpc[t] = "requesting" /\ fpc'[t] # "requesting"

\* C28: the slot _fetch took is given back on every exit path: at all times
\* the slots held are as many as the fetches between acquire and return, no
\* slot is held when every fetch is over, every exit of a fetch (whatever
\* the request gave: status 200, another status, a caught transport error,
\* an exception that leaves _fetch) frees one slot, in the end every slot is
\* free, and a fetch that waits for a slot gets one.
C28_SlotReleasedOnEveryExit ==
    /\ [](HeldSlots = Cardinality(BetweenAcquireAndReturn))
    /\ [](AllFetchesOver => HeldSlots = 0)
    /\ [][\A t \in Fetchers : Exits(t) => sem' = sem + 1]_vars
    /\ <>[](HeldSlots = 0)
    /\ \A t \in Fetchers : (fpc[t] = "waiting") ~> (fpc[t] # "waiting")

\* C28 witness: more product fetches than slots, all of them over, one left
\* by an exception that escaped _fetch, one by a caught transport error and
\* one by a response, and every slot is free again.
C28_Witness ==
    /\ Len(urls) > ConcurrentRequests
    /\ \A i \in 1..Len(urls) : fpc[urls[i]] = "done"
    /\ \E u, v, w \in Urls :
          /\ resp[u] = Failure(TimeoutError)
          /\ fetched[u].tag = "raise"
          /\ resp[v] = Failure(ClientError)
          /\ resp[w].kind = "response"
    /\ sem = ConcurrentRequests

\* the URLs whose record the consumer has
YieldedUrls == {yielded[i].ProductURL : i \in 1..Len(yielded)}
\* the generator has returned, every discovered URL's record yielded before
Exhausted ==
    /\ gen = "done"
    /\ Len(yielded) = Len(urls)
    /\ YieldedUrls = Range(urls)

\* C29: every request ending (by a response, a failure or its timeout),
\* scrape_stream in the end has yielded the record of every discovered URL
\* and returned, and it returns with nothing yielded when discovery found
\* no URL.
C29_StreamYieldsAllAndTerminates ==
    /\ <>Exhausted
    /\ [](gen = "done" => Exhausted)
    /\ []((gen = "done" /\ urls = <<>>) => yielded = <<>>)

\* C29 sighting: an exception has left scrape_stream and the record of a
\* discovered URL was never yielded.
C29_StreamRaised == gen = "raised"

\* the title the pages of u1 ("a -x") and u2 ("a-y") share, and "No title
\* found", which has no "-": the only ids and keys a crawl of the site can
\* give rise to when ids depend on the canonical title alone
SharedTitles == {<<"a">>, NoTitleFound}
SharedProductIds == {Sha256Id(t) : t \in SharedTitles}
SharedVectorIds(type, ordinals) ==
    {Sha256Id(t \o <<"_">> \o TypeChars(type) \o <<"_">> \o Digits(i)) :
        t \in SharedTitles, i \in ordinals}
Ordinals == 0..1
\* the row of the products table under an id
RowUnder(id) == CHOOSE r \in products' : r.product_id = id
\* the step wrote the product row of the record in hand
ProductRowWritten == ipc = "product_row" /\ products' # products
\* the step wrote the text point of the record in hand
TextPointWritten == ipc = "text_point" /\ points' # points

\* C30: records whose raw titles differ but share the canonical title are
\* ingested under one ProductId, one text VectorId and, per ordinal, one
\* image VectorId and object key: the sinks hold one product row and one
\* text point per canonical title and one image point and object per
\* ordinal, and the row and the text point carry the mutable values of the
\* record written last.
C30_IdsThroughCanonicalTitle ==
    /\ [](/\ {r.product_id : r \in products} \subseteq SharedProductIds
          /\ \A r1, r2 \in products : r1.product_id = r2.product_id => r1 = r2
          /\ {p.id : p \in points[TextCollection]} \subseteq SharedVectorIds("text", {0})
          /\ {p.id : p \in points[ImageCollection]}
                \subseteq SharedVectorIds("image", Ordinals)
          /\ \A c \in Collections : \A p, q \in points[c] : p.id = q.id => p = q
          /\ objects \subseteq {S3Key(id, i) : id \in SharedProductIds, i \in Ordinals})
    /\ [][ProductRowWritten =>
            LET r == RowUnder(pdata.product_id)
            IN /\ r.price = pdata.price
               /\ r.num_images = pdata.num_images
               /\ r.product_images = pdata.product_images
               /\ r.product_url = pdata.product_url
               /\ r.product_category = pdata.product_category
               /\ r.product_updated_at = pdata.product_updated_at]_vars
    /\ [][TextPointWritten =>
            \E p \in points'[TextCollection] :
               /\ p.payload.product_id = pdata.product_id
               /\ p.payload.num_images = pdata.num_images]_vars

\* C30 witness: u1 ("a -x", two images) was ingested, then u2 ("a-y", one
\* image): one product row, inserted by the first and now carrying the URL
\* and image count of the second, one text point carrying that count, and
\* the two image points of the two ordinals.
C30_Witness ==
    /\ ipc = "finished"
    /\ Cardinality(products) = 1
    /\ \E r \in products :
          /\ r.product_url = "/products/u2"
          /\ r.num_images = 1
          /\ r.product_inserted_at < r.product_updated_at
    /\ Cardinality(points[TextCollection]) = 1
    /\ \E p \in points[TextCollection] : p.payload.num_images = 1
    /\ Cardinality(points[ImageCollection]) = 2

====
